---- MODULE Spec2Model ----
(***************************************************************************)
(* Model of the FASTA parser of trio_binning (src/src/fasta.rs):           *)
(*   - get_id_from_defline : the defline extractor                         *)
(*   - Record::new         : a Record from one assembled entry string      *)
(*   - Reader / Reader::next : the streaming reader over a line iterator   *)
(* A string is a sequence of one-character strings.                        *)
(***************************************************************************)
EXTENDS Integers, Sequences, FiniteSets, TLC

\* ------------------------------------------------------------------ bounds
MaxTextLen == 6     \* longest input text (characters, line feeds included)
MaxPulls == 6       \* calls of Reader::next made on one Reader

\* -------------------------------------------------------------- characters
NL == "\n"
CR == "\r"
Marker == ">"
Chars == {Marker, " ", "A", NL}
IsWhitespace(c) == c \in {" ", NL, CR}

RECURSIVE TextsOfLen(_)
TextsOfLen(n) ==
    IF n = 0 THEN {<<>>}
    ELSE {Append(t, c) : t \in TextsOfLen(n - 1), c \in Chars}

Texts == UNION {TextsOfLen(n) : n \in 0..MaxTextLen}

\* the same text with every line feed preceded by a carriage return
RECURSIVE CrLf(_)
CrLf(t) ==
    IF Len(t) = 0 THEN <<>>
    ELSE (IF Head(t) = NL THEN <<CR, NL>> ELSE <<Head(t)>>) \o CrLf(Tail(t))

\* the inputs: every text, with either kind of line ending
Inputs == Texts \cup {CrLf(t) : t \in Texts}

\* ------------------------------------------------------- string primitives
Drop(s, n) == SubSeq(s, n + 1, Len(s))

\* str::starts_with(">")
StartsWithMarker(s) == Len(s) > 0 /\ s[1] = Marker

\* (mutant) only one leading '>' is removed
TrimLeftMatchesOnce(w) ==
    IF Len(w) > 0 /\ w[1] = Marker THEN Tail(w) ELSE w

\* str::trim_left_matches('>')
RECURSIVE TrimLeftMatches(_)
TrimLeftMatches(w) ==
    IF Len(w) > 0 /\ w[1] = Marker THEN TrimLeftMatches(Tail(w)) ELSE w

\* str::trim(): leading and trailing whitespace removed
RECURSIVE TrimStart(_)
TrimStart(s) ==
    IF Len(s) > 0 /\ IsWhitespace(s[1]) THEN TrimStart(Tail(s)) ELSE s

RECURSIVE TrimEnd(_)
TrimEnd(s) ==
    IF Len(s) > 0 /\ IsWhitespace(s[Len(s)])
    THEN TrimEnd(SubSeq(s, 1, Len(s) - 1))
    ELSE s

\* (mutant) trailing whitespace is kept
TrimLeadingOnly(s) == TrimStart(s)

Trim(s) == TrimEnd(TrimStart(s))

\* the longest prefix of s free of whitespace
RECURSIVE TakeWord(_)
TakeWord(s) ==
    IF Len(s) = 0 \/ IsWhitespace(s[1]) THEN <<>>
    ELSE <<s[1]>> \o TakeWord(Tail(s))

\* str::split(sep): the pieces between the separators, at least one piece
RECURSIVE SplitOn(_, _)
SplitOn(s, sep) ==
    IF \E i \in 1..Len(s) : s[i] = sep
    THEN LET i == CHOOSE k \in 1..Len(s) :
                     s[k] = sep /\ \A j \in 1..(k - 1) : s[j] # sep
         IN  <<SubSeq(s, 1, i - 1)>> \o SplitOn(Drop(s, i), sep)
    ELSE <<s>>

\* a line that ended with a line feed: a carriage return before it goes too
StripCR(l) ==
    IF Len(l) > 0 /\ l[Len(l)] = CR THEN SubSeq(l, 1, Len(l) - 1) ELSE l

\* BufRead::lines(): as split on the line feed, but a text that ends with a
\* line feed (or is empty) has no last empty line, and every line that ended
\* with a line feed loses one carriage return before it
BufLines(text) ==
    LET pieces == SplitOn(text, NL)
        n == Len(pieces)
    IN  IF pieces[n] = <<>>
        THEN [i \in 1..(n - 1) |-> StripCR(pieces[i])]
        ELSE [i \in 1..n |-> IF i < n THEN StripCR(pieces[i]) ELSE pieces[i]]

RECURSIVE ConcatAll(_)
ConcatAll(ss) == IF Len(ss) = 0 THEN <<>> ELSE Head(ss) \o ConcatAll(Tail(ss))

\* ------------------------------------------------------------------ values
EmptyRecord == [id |-> <<>>, seq |-> <<>>, entry_string |-> <<>>]

\* what a call returns: Ok(record), Err(Parse), Err(Io), or None
OkItem(rec) == [kind |-> "Ok", rec |-> rec]
ParseErr == [kind |-> "Parse", rec |-> EmptyRecord]
IoErr == [kind |-> "Io", rec |-> EmptyRecord]
NoItem == [kind |-> "None", rec |-> EmptyRecord]
NotCalled == [kind |-> "NotCalled", rec |-> EmptyRecord]

\* -------------------------------------------------------- get_id_from_defline
\* (mutant) a token of '>' only is a Parse error
get_id_from_defline_no_empty_id(defline) ==
    LET rest == TrimStart(defline)
    IN  IF Len(rest) = 0 \/ TrimLeftMatches(TakeWord(rest)) = <<>> THEN ParseErr
        ELSE OkItem([EmptyRecord EXCEPT !.id = TrimLeftMatches(TakeWord(rest))])

\* Ok(id) carries the id in rec.id; the other fields are not part of the result
get_id_from_defline(defline) ==
    LET rest == TrimStart(defline)
    IN  IF Len(rest) = 0 THEN ParseErr
        ELSE OkItem([EmptyRecord EXCEPT !.id = TrimLeftMatches(TakeWord(rest))])

\* ------------------------------------------------------------ Record::new
\* (mutant) a first line that does not start with '>' is rejected
RecordNewHeaderRequired(entry_string) ==
    LET lines_iter == SplitOn(entry_string, NL)
        first == IF StartsWithMarker(Head(lines_iter))
                 THEN get_id_from_defline(Head(lines_iter))
                 ELSE ParseErr
    IN  IF first.kind # "Ok" THEN first
        ELSE OkItem([id |-> first.rec.id,
                     seq |-> ConcatAll(Tail(lines_iter)),
                     entry_string |-> entry_string])

\* (mutant) the lines of the sequence are trimmed, as the reader does
RecordNewSeqTrimmed(entry_string) ==
    LET lines_iter == SplitOn(entry_string, NL)
        rest == Tail(lines_iter)
        first == get_id_from_defline(Head(lines_iter))
    IN  IF first.kind # "Ok" THEN first
        ELSE OkItem([id |-> first.rec.id,
                     seq |-> ConcatAll([i \in 1..Len(rest) |-> Trim(rest[i])]),
                     entry_string |-> entry_string])

RecordNew(entry_string) ==
    LET lines_iter == SplitOn(entry_string, NL)
        first == IF Len(lines_iter) = 0 THEN ParseErr
                 ELSE get_id_from_defline(Head(lines_iter))
    IN  IF first.kind # "Ok" THEN first
        ELSE OkItem([id |-> first.rec.id,
                     seq |-> ConcatAll(Tail(lines_iter)),
                     entry_string |-> entry_string])

\* ----------------------------------------------------------------- Reader
\* one element of Lines<BufReader<T>>: Ok(line) or Err(io::Error)
OkLine(l) == [ok |-> TRUE, line |-> l]
ErrLine == [ok |-> FALSE, line |-> <<>>]

\* the line source of a Reader over text, the read of line f failing (f = 0:
\* no read fails)
LineSource(t, f) ==
    LET ls == BufLines(t)
    IN  [i \in 1..Len(ls) |-> IF i = f THEN ErrLine ELSE OkLine(ls[i])]

\* The body of the while loop for one line; ret is the value the call returns
\* at this line, Continue when the loop goes on to the next line.
Continue == [kind |-> "Continue", rec |-> EmptyRecord]
Step(cur, ret) == [cur |-> cur, ret |-> ret]

\* (mutant) the new entry inherits the seq of the finished one
OnNewEntrySeqKept(cur, line) ==
    LET r == get_id_from_defline(line)
    IN  IF r.kind # "Ok" THEN Step(cur, r)
        ELSE Step([id |-> r.rec.id, seq |-> cur.seq, entry_string |-> line],
                  OkItem(cur))

\* (mutant) the new entry's entry_string continues the finished one's
OnNewEntryEntryKept(cur, line) ==
    LET r == get_id_from_defline(line)
    IN  IF r.kind # "Ok" THEN Step(cur, r)
        ELSE Step([id |-> r.rec.id, seq |-> <<>>,
                   entry_string |-> cur.entry_string \o line],
                  OkItem(cur))

\* a header line while an entry is in progress
OnNewEntry(cur, line) ==
    LET r == get_id_from_defline(line)
    IN  IF r.kind # "Ok" THEN Step(cur, r)
        ELSE Step([id |-> r.rec.id, seq |-> <<>>, entry_string |-> line],
                  OkItem(cur))

\* (mutant) the first header line is not added to entry_string
OnFirstLineNotPushed(cur, line) ==
    LET r == get_id_from_defline(line)
    IN  IF r.kind # "Ok" THEN Step(cur, r)
        ELSE Step([cur EXCEPT !.id = r.rec.id], Continue)

\* (mutant) the id of the first header line is not stored
OnFirstLineIdNotSet(cur, line) ==
    LET pushed == [cur EXCEPT !.entry_string = cur.entry_string \o line]
        r == get_id_from_defline(line)
    IN  IF r.kind # "Ok" THEN Step(pushed, r)
        ELSE Step(pushed, Continue)

\* a header line while no entry is in progress
OnFirstLine(cur, line) ==
    LET pushed == [cur EXCEPT !.entry_string = cur.entry_string \o line]
        r == get_id_from_defline(line)
    IN  IF r.kind # "Ok" THEN Step(pushed, r)
        ELSE Step([pushed EXCEPT !.id = r.rec.id], Continue)

\* (mutant) a line before any header line is skipped
OnSeqLineOrphanSkipped(cur, line) ==
    IF cur.entry_string = <<>> THEN Step(cur, Continue)
    ELSE Step([cur EXCEPT !.entry_string = cur.entry_string \o line,
                          !.seq = cur.seq \o Trim(line)],
              Continue)

\* (mutant) entry_string gets the trimmed line too
OnSeqLineEntryTrimmed(cur, line) ==
    Step([cur EXCEPT !.entry_string = cur.entry_string \o Trim(line),
                     !.seq = cur.seq \o Trim(line)],
         Continue)

\* a line that is not the defline
OnSeqLine(cur, line) ==
    Step([cur EXCEPT !.entry_string = cur.entry_string \o line,
                     !.seq = cur.seq \o Trim(line)],
         Continue)

\* (mutant) every header line finishes an entry, the first one too
OnLineNoFirstLineCase(cur, result) ==
    IF ~result.ok THEN Step(cur, IoErr)
    ELSE IF StartsWithMarker(result.line)
         THEN OnNewEntry(cur, result.line)
         ELSE OnSeqLine(cur, result.line)

\* (mutant) a failed read discards the entry in progress
OnLineIoDiscards(cur, result) ==
    IF ~result.ok THEN Step(EmptyRecord, IoErr)
    ELSE IF StartsWithMarker(result.line)
         THEN IF cur.entry_string # <<>>
              THEN OnNewEntry(cur, result.line)
              ELSE OnFirstLine(cur, result.line)
         ELSE OnSeqLine(cur, result.line)

\* (mutant) an entry counts as in progress only once it has an id
OnLineInProgressById(cur, result) ==
    IF ~result.ok THEN Step(cur, IoErr)
    ELSE IF StartsWithMarker(result.line)
         THEN IF cur.id # <<>>
              THEN OnNewEntry(cur, result.line)
              ELSE OnFirstLine(cur, result.line)
         ELSE OnSeqLine(cur, result.line)

\* one element of the line source
OnLine(cur, result) ==
    IF ~result.ok THEN Step(cur, IoErr)
    ELSE IF StartsWithMarker(result.line)
         THEN IF cur.entry_string # <<>>
              THEN OnNewEntry(cur, result.line)
              ELSE OnFirstLine(cur, result.line)
         ELSE OnSeqLine(cur, result.line)

\* (mutant) the accumulator is not emptied after the final record
OnExhaustedNotEmptied(cur) ==
    IF cur.entry_string # <<>>
    THEN Step(cur, OkItem(cur))
    ELSE Step(cur, NoItem)

\* (mutant) the entry in progress is not returned at the end of the lines
OnExhaustedNothingReturned(cur) == Step(cur, NoItem)

\* after the loop: the line source is exhausted
OnExhausted(cur) ==
    IF cur.entry_string # <<>>
    THEN Step([cur EXCEPT !.entry_string = <<>>], OkItem(cur))
    ELSE Step(cur, NoItem)

\* (mutant) the header line that ends an entry stays unread
RECURSIVE ReaderNextHeaderUnread(_, _, _)
ReaderNextHeaderUnread(src, p, cur) ==
    IF p >= Len(src)
    THEN LET s == OnExhausted(cur)
         IN  [cur |-> s.cur, pos |-> p, ret |-> s.ret, eof |-> TRUE]
    ELSE LET s == OnLine(cur, src[p + 1])
         IN  IF s.ret.kind = "Continue"
             THEN ReaderNextHeaderUnread(src, p + 1, s.cur)
             ELSE [cur |-> s.cur, pos |-> IF s.ret.kind = "Ok" THEN p ELSE p + 1,
                   ret |-> s.ret, eof |-> FALSE]

\* Reader::next from position p of the line source src with accumulator cur:
\* the accumulator, the position and the returned value when the call returns,
\* and whether the call ended on lines_iter.next() returning None
RECURSIVE ReaderNext(_, _, _)
ReaderNext(src, p, cur) ==
    IF p >= Len(src)
    THEN LET s == OnExhausted(cur)
         IN  [cur |-> s.cur, pos |-> p, ret |-> s.ret, eof |-> TRUE]
    ELSE LET s == OnLine(cur, src[p + 1])
         IN  IF s.ret.kind = "Continue"
             THEN ReaderNext(src, p + 1, s.cur)
             ELSE [cur |-> s.cur, pos |-> p + 1, ret |-> s.ret, eof |-> FALSE]

\* ------------------------------------------------------------------ state
VARIABLES
    api,            \* the entry point driven: "Reader", "Record", "Defline"
    text,           \* the input: the stream's text, the entry string, the defline
    source,         \* Reader: everything the line iterator produces, in order
    pos,            \* Reader: how many elements of source lines_iter has given
    current_entry,  \* Reader.current_entry
    ret,            \* the value the last call returned
    yielded,        \* Reader: the values Reader::next returned so far, in order
    pulls,          \* Reader: calls of Reader::next so far
    line_reads,     \* Reader: lines the last call of Reader::next got from lines_iter
    next_calls      \* Reader: calls of lines_iter.next() in the last call of Reader::next

vars == <<api, text, source, pos, current_entry, ret, yielded, pulls,
          line_reads, next_calls>>

\* Reader::new(file)
InitReader ==
    /\ api = "Reader"
    /\ text \in Inputs
    /\ \E f \in 0..Len(BufLines(text)) : source = LineSource(text, f)
    /\ pos = 0
    /\ current_entry = EmptyRecord
    /\ ret = NotCalled
    /\ yielded = <<>>
    /\ pulls = 0
    /\ line_reads = 0
    /\ next_calls = 0

InitRecord ==
    /\ api = "Record"
    /\ text \in Inputs
    /\ source = <<>>
    /\ pos = 0
    /\ current_entry = EmptyRecord
    /\ ret = NotCalled
    /\ yielded = <<>>
    /\ pulls = 0
    /\ line_reads = 0
    /\ next_calls = 0

InitDefline ==
    /\ api = "Defline"
    /\ text \in Inputs
    /\ source = <<>>
    /\ pos = 0
    /\ current_entry = EmptyRecord
    /\ ret = NotCalled
    /\ yielded = <<>>
    /\ pulls = 0
    /\ line_reads = 0
    /\ next_calls = 0

Init == InitReader \/ InitRecord \/ InitDefline

\* one call of Reader::next
Pull ==
    /\ api = "Reader"
    /\ pulls < MaxPulls
    /\ LET r == ReaderNext(source, pos, current_entry)
       IN  /\ current_entry' = r.cur
           /\ pos' = r.pos
           /\ ret' = r.ret
           /\ yielded' = Append(yielded, r.ret)
           /\ line_reads' = r.pos - pos
           /\ next_calls' = (r.pos - pos) + (IF r.eof THEN 1 ELSE 0)
    /\ pulls' = pulls + 1
    /\ UNCHANGED <<api, text, source>>

\* Record::new(&text)
NewRecord ==
    /\ api = "Record"
    /\ ret = NotCalled
    /\ ret' = RecordNew(text)
    /\ UNCHANGED <<api, text, source, pos, current_entry, yielded, pulls,
                   line_reads, next_calls>>

\* get_id_from_defline(&text)
ExtractId ==
    /\ api = "Defline"
    /\ ret = NotCalled
    /\ ret' = get_id_from_defline(text)
    /\ UNCHANGED <<api, text, source, pos, current_entry, yielded, pulls,
                   line_reads, next_calls>>

Next == Pull \/ NewRecord \/ ExtractId

Spec == Init /\ [][Next]_vars

TypeOK ==
    /\ api \in {"Reader", "Record", "Defline"}
    /\ pos \in 0..Len(source)
    /\ pulls \in 0..MaxPulls
    /\ Len(yielded) = pulls

\* ======================================================================
\* Properties
\* ======================================================================

\* ---- vocabulary of the properties, in terms of the input alone
HasToken(s) == \E i \in 1..Len(s) : ~IsWhitespace(s[i])

\* the first whitespace-delimited token of s, its leading '>' removed
StrippedFirstToken(s) ==
    LET a == CHOOSE i \in 1..Len(s) :
                 ~IsWhitespace(s[i]) /\ \A j \in 1..(i - 1) : IsWhitespace(s[j])
        b == CHOOSE i \in a..Len(s) :
                 /\ \A j \in a..i : ~IsWhitespace(s[j])
                 /\ (i = Len(s) \/ IsWhitespace(s[i + 1]))
        c == IF \E i \in a..b : s[i] # Marker
             THEN CHOOSE i \in a..b :
                      s[i] # Marker /\ \A j \in a..(i - 1) : s[j] = Marker
             ELSE b + 1
    IN  SubSeq(s, c, b)

\* s from its first to its last character that is not whitespace
Trimmed(s) ==
    IF HasToken(s)
    THEN LET a == CHOOSE i \in 1..Len(s) :
                      ~IsWhitespace(s[i]) /\ \A j \in 1..(i - 1) : IsWhitespace(s[j])
             b == CHOOSE i \in 1..Len(s) :
                      ~IsWhitespace(s[i]) /\ \A j \in (i + 1)..Len(s) : IsWhitespace(s[j])
         IN  SubSeq(s, a, b)
    ELSE <<>>

HasWhitespace(s) == \E i \in 1..Len(s) : IsWhitespace(s[i])
HasMarker(s) == \E i \in 1..Len(s) : s[i] = Marker

NoReadFails == \A i \in 1..Len(source) : source[i].ok
InLine(i) == source[i].line
NumLines == Len(source)
HeaderIdx == {i \in 1..NumLines : source[i].ok /\ StartsWithMarker(InLine(i))}
NumHeaders == Cardinality(HeaderIdx)

\* the index of the k-th header line, 1 <= k <= NumHeaders
KthHeader(k) ==
    CHOOSE h \in HeaderIdx : Cardinality({j \in HeaderIdx : j <= h}) = k

\* the index of the first header line after line h, NumLines + 1 when none
EntryEnd(h) ==
    IF \E j \in HeaderIdx : j > h
    THEN CHOOSE j \in HeaderIdx :
             j > h /\ \A m \in HeaderIdx : m > h => j <= m
    ELSE NumLines + 1

\* the record the entry of the k-th header line stands for
EntryOfHeader(k) ==
    LET h == KthHeader(k)
        n == EntryEnd(h) - h - 1      \* its body lines
    IN  [id |-> StrippedFirstToken(InLine(h)),
         seq |-> ConcatAll([i \in 1..n |-> Trimmed(InLine(h + i))]),
         entry_string |-> ConcatAll([i \in 1..(n + 1) |-> InLine(h + i - 1)])]

OkCount == Cardinality({k \in 1..Len(yielded) : yielded[k].kind = "Ok"})
Exhausted == pos = Len(source)

\* ---------------------------------------------------------------- C1
\* C1: on an input without read failures whose first line is a header line,
\* the k-th value Reader::next returns is the record of the k-th header line
\* (its id extracted from that line, its seq the trimmed body lines up to the
\* next header or the end, its entry_string the raw lines concatenated), a
\* record is returned only once the next header line has been read or the
\* lines are exhausted, and after the last record the reader returns None.
C1_HeaderOrder ==
    (api = "Reader" /\ NoReadFails /\ NumLines > 0 /\ StartsWithMarker(InLine(1)))
    => /\ \A k \in 1..Len(yielded) :
             IF k <= NumHeaders
             THEN /\ yielded[k] = OkItem(EntryOfHeader(k))
                  /\ (k = Len(yielded) =>
                         pos = IF EntryEnd(KthHeader(k)) <= NumLines
                               THEN EntryEnd(KthHeader(k))
                               ELSE NumLines)
             ELSE yielded[k] = NoItem

\* two records with different ids, the first with a body line, then None
C1_Witness ==
    /\ api = "Reader" /\ NoReadFails /\ NumLines = 3
    /\ HeaderIdx = {1, 3}
    /\ Len(yielded) = 3
    /\ yielded[1].kind = "Ok" /\ yielded[2].kind = "Ok" /\ yielded[3].kind = "None"
    /\ yielded[1].rec.seq # <<>>
    /\ yielded[1].rec.id # yielded[2].rec.id

\* ---------------------------------------------------------------- C2
\* C2: on a well-formed input (no read failures, the first non-empty line is
\* a header line) the reader returns no error, never more records than there
\* are header lines, and exactly as many once it has returned None.
WellFormed ==
    /\ NoReadFails
    /\ \A i \in 1..NumLines :
          (InLine(i) # <<>> /\ \A j \in 1..(i - 1) : InLine(j) = <<>>)
          => StartsWithMarker(InLine(i))

C2_CountEqualsHeaders ==
    (api = "Reader" /\ WellFormed)
    => /\ \A k \in 1..Len(yielded) : yielded[k].kind \in {"Ok", "None"}
       /\ OkCount <= NumHeaders
       /\ (ret.kind = "None" => OkCount = NumHeaders)

\* empty lines before the first of two header lines, the reader at its end
C2_Witness ==
    /\ api = "Reader" /\ WellFormed
    /\ NumLines >= 3 /\ InLine(1) = <<>>
    /\ NumHeaders = 2
    /\ ret.kind = "None" /\ OkCount = 2

\* the empty stream: no lines, None at the first call
C2_WitnessEmpty ==
    api = "Reader" /\ text = <<>> /\ pulls = 1 /\ ret.kind = "None"

\* ---------------------------------------------------------------- C3
\* C3: a call made when the lines are exhausted returns the record in
\* progress if there is one and empties the accumulator's entry_string, and
\* returns None otherwise; once None was returned every later call returns
\* None.
C3_FinalOnce ==
    [][(api = "Reader" /\ Exhausted)
       => /\ (current_entry.entry_string # <<>>
                => /\ ret' = OkItem(current_entry)
                   /\ current_entry'.entry_string = <<>>)
          /\ (current_entry.entry_string = <<>> => ret' = NoItem)
          /\ (ret.kind = "None" => ret'.kind = "None")]_vars

\* the final record returned at the end of the lines, then None twice
C3_Witness ==
    /\ api = "Reader" /\ Exhausted /\ pulls >= 3
    /\ yielded[pulls - 2].kind = "Ok"
    /\ yielded[pulls - 1].kind = "None"
    /\ yielded[pulls].kind = "None"

\* ---------------------------------------------------------------- C4
\* C4: every record Reader::next returns and every record Record::new
\* returns has a non-empty entry_string.
C4_EntryStringNonEmpty ==
    /\ (api = "Reader"
          => \A k \in 1..Len(yielded) :
                yielded[k].kind = "Ok" => yielded[k].rec.entry_string # <<>>)
    /\ (api = "Record" /\ ret.kind = "Ok" => ret.rec.entry_string # <<>>)

\* a reader that returned a record made of body lines only
C4_Witness ==
    /\ api = "Reader" /\ NumHeaders = 0 /\ NumLines >= 2
    /\ ret.kind = "Ok" /\ ret.rec.id = <<>>

\* Record::new returned a record
C4_WitnessNew == api = "Record" /\ ret.kind = "Ok" /\ ret.rec.seq # <<>>

\* ---------------------------------------------------------------- C5
OkRecords == {yielded[k].rec : k \in {j \in 1..Len(yielded) : yielded[j].kind = "Ok"}}

\* C5 as stated: the seq of every record the reader returns has no whitespace
\* and no '>', whatever the body lines are.
C5_SeqCleanAnyInput ==
    api = "Reader"
    => \A r \in OkRecords : ~HasWhitespace(r.seq) /\ ~HasMarker(r.seq)

\* C5 amended: the seq of every record the reader returns has no whitespace
\* and no '>' provided no line read so far that is not a header line has,
\* once trimmed, a whitespace or a '>' in it.
BodyLinesCleanSoFar ==
    \A i \in 1..pos :
        (source[i].ok /\ ~StartsWithMarker(InLine(i)))
        => ~HasWhitespace(Trimmed(InLine(i))) /\ ~HasMarker(InLine(i))

C5_SeqCleanWhenBodiesClean ==
    (api = "Reader" /\ BodyLinesCleanSoFar)
    => \A r \in OkRecords : ~HasWhitespace(r.seq) /\ ~HasMarker(r.seq)

\* a record whose body line had whitespace around its letters
C5_Witness ==
    /\ api = "Reader" /\ BodyLinesCleanSoFar
    /\ \E i \in 1..pos :
          source[i].ok /\ ~StartsWithMarker(InLine(i))
          /\ Trimmed(InLine(i)) # <<>> /\ Trimmed(InLine(i)) # InLine(i)
    /\ ret.kind = "Ok" /\ ret.rec.seq # <<>>

\* ---------------------------------------------------------------- C6
\* C6 as stated: for every record Record::new or Reader::next returns, the
\* extractor applied to the first line of the record's entry_string returns
\* the record's id.
FirstLineOf(s) == Head(SplitOn(s, NL))
IdRederivable(r) == get_id_from_defline(FirstLineOf(r.entry_string))
                        = OkItem([EmptyRecord EXCEPT !.id = r.id])

C6_IdFromOwnFirstLine ==
    /\ (api = "Reader" => \A r \in OkRecords : IdRederivable(r))
    /\ (api = "Record" /\ ret.kind = "Ok" => IdRederivable(ret.rec))

\* ---------------------------------------------------------------- C7
\* C7 as stated: on an input without any header line the reader returns no
\* record: the first call returns None.
NoHeaderInput == api = "Reader" /\ NoReadFails /\ NumHeaders = 0

C7_NoHeaderYieldsNothing ==
    (NoHeaderInput /\ pulls >= 1) => yielded[1] = NoItem

\* C7 amended: on an input without any header line the first call returns
\* None only when every line is empty; otherwise it returns one record with
\* the empty id, made of all the lines (seq the trimmed lines, entry_string
\* the raw lines), and every later call returns None.
AllLines == [i \in 1..NumLines |-> InLine(i)]
AllLinesTrimmed == [i \in 1..NumLines |-> Trimmed(InLine(i))]

C7_NoHeaderYieldsBodyRecord ==
    (NoHeaderInput /\ pulls >= 1)
    => /\ yielded[1] = IF \A i \in 1..NumLines : InLine(i) = <<>>
                       THEN NoItem
                       ELSE OkItem([id |-> <<>>,
                                    seq |-> ConcatAll(AllLinesTrimmed),
                                    entry_string |-> ConcatAll(AllLines)])
       /\ \A k \in 2..Len(yielded) : yielded[k] = NoItem

\* two body lines and no header: a record at the first call, None at the second
C7_Witness ==
    /\ NoHeaderInput /\ NumLines = 2 /\ pulls = 2
    /\ InLine(1) # <<>> /\ InLine(2) # <<>>
    /\ yielded[1].kind = "Ok" /\ yielded[2].kind = "None"

\* ---------------------------------------------------------------- C8
RecordNewCalled == api = "Record" /\ ret # NotCalled

\* C8 as stated: Record::new of a string whose first line does not start
\* with '>' returns a Parse error.
C8_NoHeaderIsParseError ==
    (RecordNewCalled /\ ~StartsWithMarker(FirstLineOf(text)))
    => ret.kind = "Parse"

\* C8 amended: Record::new of a string whose first line does not start with
\* '>' returns a Parse error only when that line is empty or all whitespace;
\* otherwise it succeeds, the id being the first whitespace-delimited token
\* of that line without its leading '>'.
C8_NoHeaderParseErrorOnlyIfBlank ==
    (RecordNewCalled /\ ~StartsWithMarker(FirstLineOf(text)))
    => IF HasToken(FirstLineOf(text))
       THEN /\ ret.kind = "Ok"
            /\ ret.rec.id = StrippedFirstToken(FirstLineOf(text))
       ELSE ret = ParseErr

\* Record::new succeeded on a string of two lines without '>'
C8_Witness ==
    /\ RecordNewCalled /\ ~HasMarker(text)
    /\ Len(SplitOn(text, NL)) = 2
    /\ ret.kind = "Ok" /\ ret.rec.id # <<>> /\ ret.rec.seq # <<>>

\* ---------------------------------------------------------------- C9
ExtractCalled == api = "Defline" /\ ret # NotCalled

C9_WitnessEmptyId ==
    ExtractCalled /\ text = <<Marker, Marker>> /\ ret.kind = "Ok" /\ ret.rec.id = <<>>

\* ---------------------------------------------------------------- C10
\* C10 as stated: the extractor returns a Parse error when no id can be found
\* in the defline: when the defline is empty, and when a whitespace follows
\* the '>' directly.
NoIdInDefline ==
    \/ text = <<>>
    \/ (Len(text) >= 2 /\ text[1] = Marker /\ IsWhitespace(text[2]))

C10_NoIdIsParseError ==
    (ExtractCalled /\ NoIdInDefline) => ret.kind = "Parse"

\* ---------------------------------------------------------------- C11
\* the text before the first line feed, and the text after it without its
\* line feeds
FirstNL(s) ==
    IF \E i \in 1..Len(s) : s[i] = NL
    THEN CHOOSE i \in 1..Len(s) : s[i] = NL /\ \A j \in 1..(i - 1) : s[j] # NL
    ELSE Len(s) + 1
LineOne(s) == SubSeq(s, 1, FirstNL(s) - 1)
NotNL(c) == c # NL
AfterLineOne(s) == SelectSeq(SubSeq(s, FirstNL(s) + 1, Len(s)), NotNL)

C11_WitnessParse ==
    /\ RecordNewCalled /\ ~HasToken(LineOne(text)) /\ HasMarker(text)
    /\ ret.kind = "Parse"

\* ---------------------------------------------------------------- C12
YieldedEntryStrings ==
    [k \in 1..Len(yielded) |->
        IF yielded[k].kind = "Ok" THEN yielded[k].rec.entry_string ELSE <<>>]
LinesRead == [i \in 1..pos |-> InLine(i)]

\* C12: on an input without read failures, the entry_strings of the records
\* returned so far, in order, followed by the accumulator's entry_string, are
\* the lines read so far in order; once None is returned the entry_strings of
\* the records are all the lines of the input in order.
C12_NoLineLostOrDuplicated ==
    (api = "Reader" /\ NoReadFails)
    => /\ ConcatAll(YieldedEntryStrings) \o current_entry.entry_string
            = ConcatAll(LinesRead)
       /\ (ret.kind = "None"
             => ConcatAll(YieldedEntryStrings) = ConcatAll(AllLines))

\* malformed input, read to its end: a line with whitespace before the first
\* header line, two records
C12_Witness ==
    /\ api = "Reader" /\ NoReadFails /\ ret.kind = "None"
    /\ NumLines >= 2 /\ OkCount = 2
    /\ ~StartsWithMarker(InLine(1)) /\ Trimmed(InLine(1)) # InLine(1)

\* ---------------------------------------------------------------- C13
PullTaken == api = "Reader" /\ pulls' = pulls + 1

\* line i, read by a call that starts in the current state, finds an entry in
\* progress: the accumulator was not empty, or a non-empty line came before
InProgressAt(i) ==
    \/ current_entry.entry_string # <<>>
    \/ \E j \in (pos + 1)..(i - 1) : source[j].ok /\ InLine(j) # <<>>

\* the lines after pos at which a call has to return: a failed read, or a
\* header line that finds an entry in progress
StopLines ==
    {i \in (pos + 1)..NumLines :
        \/ ~source[i].ok
        \/ (StartsWithMarker(InLine(i)) /\ InProgressAt(i))}
FirstStop == CHOOSE i \in StopLines : \A j \in StopLines : i <= j

\* C13: a call of Reader::next reads up to the first line at which it has to
\* return and no further, or to the end of the lines when there is none (it
\* never returns at a body line); when it returns at a header line it returns
\* a record, and the accumulator then holds that line's id, that line as
\* entry_string and the empty seq.
C13_OneLineLookahead ==
    [][PullTaken
       => IF StopLines = {}
          THEN /\ pos' = NumLines
               /\ next_calls' = line_reads' + 1
               /\ ret'.kind \in {"Ok", "None"}
          ELSE /\ pos' = FirstStop
               /\ next_calls' = line_reads'
               /\ (source[FirstStop].ok
                     => /\ ret'.kind = "Ok"
                        /\ current_entry' =
                             [id |-> StrippedFirstToken(InLine(FirstStop)),
                              seq |-> <<>>,
                              entry_string |-> InLine(FirstStop)])]_vars

\* a record returned at a header line after a body line, a line still unread
C13_Witness ==
    /\ api = "Reader" /\ ret.kind = "Ok" /\ pos < NumLines /\ line_reads >= 3
    /\ source[pos].ok /\ StartsWithMarker(InLine(pos))
    /\ ret.rec.seq # <<>>
    /\ current_entry.entry_string = InLine(pos)

HeadersBefore(i) == {j \in (pos + 1)..(i - 1) : StartsWithMarker(InLine(j))}
AccumulatorBefore(i) ==
    LET n == i - 1 - pos
    IN  [id |-> IF HeadersBefore(i) = {} THEN current_entry.id
                ELSE StrippedFirstToken(InLine(CHOOSE j \in HeadersBefore(i) : TRUE)),
         seq |-> current_entry.seq \o
                 ConcatAll([j \in 1..n |->
                               IF StartsWithMarker(InLine(pos + j)) THEN <<>>
                               ELSE Trimmed(InLine(pos + j))]),
         entry_string |-> current_entry.entry_string \o
                          ConcatAll([j \in 1..n |-> InLine(pos + j)])]

\* C15: a call of Reader::next returns an Io error exactly when the first
\* line at which it has to return is a failed read; the failed read is the
\* last thing it reads, and the accumulator is left as the lines before the
\* failed read made it: the entry in progress is neither returned nor
\* dropped.
C15_IoErrorKeepsAccumulator ==
    [][PullTaken
       => /\ ret'.kind = "Io" <=> (StopLines # {} /\ ~source[FirstStop].ok)
          /\ ret'.kind = "Io"
               => /\ ret' = IoErr
                  /\ pos' = FirstStop
                  /\ current_entry' = AccumulatorBefore(FirstStop)]_vars

\* the read of the third line fails, a header line and a body line before it
C15_Witness ==
    /\ api = "Reader" /\ pulls = 1 /\ ret.kind = "Io" /\ pos = 3
    /\ current_entry.id # <<>> /\ current_entry.seq # <<>>
    /\ current_entry.entry_string # current_entry.seq

\* ---------------------------------------------------------------- C16
NonEmptyIdx == {i \in 1..NumLines : InLine(i) # <<>>}
FirstNonEmpty == CHOOSE i \in NonEmptyIdx : \A j \in NonEmptyIdx : i <= j

\* an input without read failures whose first non-empty line is no header
OrphanInput ==
    /\ api = "Reader" /\ NoReadFails
    /\ NonEmptyIdx # {} /\ ~StartsWithMarker(InLine(FirstNonEmpty))

\* the first header line, NumLines + 1 when there is none
OrphanEnd == EntryEnd(0)

\* C16: when the first non-empty line is not a header line, the first call
\* of Reader::next reads up to the first header line (or the end) and returns
\* a successful record with the empty id made of the lines before that header
\* line, and no call returns an error.
C16_OrphanLinesYielded ==
    (OrphanInput /\ pulls >= 1)
    => /\ yielded[1] =
            OkItem([id |-> <<>>,
                    seq |-> ConcatAll([i \in 1..(OrphanEnd - 1) |-> Trimmed(InLine(i))]),
                    entry_string |-> ConcatAll([i \in 1..(OrphanEnd - 1) |-> InLine(i)])])
       /\ (pulls = 1 => pos = IF OrphanEnd <= NumLines THEN OrphanEnd ELSE NumLines)
       /\ \A k \in 1..Len(yielded) : yielded[k].kind \in {"Ok", "None"}

\* two lines before the first header line, returned as a record when that
\* header line is read
C16_Witness ==
    /\ OrphanInput /\ pulls = 1 /\ pos = 3 /\ NumLines >= 3
    /\ StartsWithMarker(InLine(3))
    /\ ret.kind = "Ok" /\ ret.rec.id = <<>> /\ ret.rec.seq # <<>>
    /\ current_entry.entry_string = InLine(3)

\* ---------------------------------------------------------------- C17
\* C17: on an input of n lines without read failures, a call of Reader::next
\* makes at most one lines_iter.next() call per line left and one more, the
\* reader returns at most n records, and from the (n + 1)-th call on, at the
\* latest, it returns None.
C17_FiniteSequence ==
    (api = "Reader" /\ NoReadFails)
    => /\ pos <= NumLines
       /\ next_calls <= line_reads + 1
       /\ OkCount <= NumLines
       /\ (pulls >= NumLines + 1 => ret = NoItem)

\* three lines, three records, None at the fourth call
C17_Witness ==
    /\ api = "Reader" /\ NoReadFails /\ NumLines = 3
    /\ OkCount = 3 /\ pulls = 4 /\ ret = NoItem

\* ---------------------------------------------------------------- C18
\* C18 as stated: whenever the accumulator's entry_string is empty between
\* calls (at the start, and after the final record was returned), its id and
\* seq are empty too.
C18_EmptyAccumulatorIsFresh ==
    (api = "Reader" /\ current_entry.entry_string = <<>>)
    => current_entry = EmptyRecord

NLIdx(s) == {i \in 1..Len(s) : s[i] = NL}
BodyPiecesOf(s) ==
    {SubSeq(s, a + 1, b - 1) :
        <<a, b>> \in {p \in NLIdx(s) \X (NLIdx(s) \cup {Len(s) + 1}) :
                         /\ p[1] < p[2]
                         /\ \A i \in NLIdx(s) : ~(p[1] < i /\ i < p[2])}}

\* s is one header line followed by body lines that do not start with '>'
\* and have no whitespace at either end, joined by line feeds
SingleEntryText(s) ==
    /\ StartsWithMarker(LineOne(s))
    /\ \A b \in BodyPiecesOf(s) : ~StartsWithMarker(b) /\ Trimmed(b) = b

\* the record the reader has to return on s if the two paths agree
AsRecordNew(s) ==
    OkItem([id |-> RecordNew(s).rec.id,
            seq |-> RecordNew(s).rec.seq,
            entry_string |-> SelectSeq(RecordNew(s).rec.entry_string, NotNL)])

\* C20 as stated: on every such s the reader returns exactly one record, with
\* the id and seq of Record::new(s) and with its entry_string less the line
\* feeds.
C20_PathsAgree ==
    (api = "Reader" /\ NoReadFails /\ SingleEntryText(text) /\ pulls >= 1)
    => /\ yielded[1] = AsRecordNew(text)
       /\ \A k \in 2..Len(yielded) : yielded[k] = NoItem

\* C20 amended: the same, provided the header line is not ended by a
\* carriage return and a line feed.
HeaderEndsCrLf(s) ==
    /\ FirstNL(s) <= Len(s)
    /\ Len(LineOne(s)) > 0 /\ LineOne(s)[Len(LineOne(s))] = CR

C20_PathsAgreeWithoutCrLf ==
    (api = "Reader" /\ NoReadFails /\ SingleEntryText(text)
       /\ ~HeaderEndsCrLf(text) /\ pulls >= 1)
    => /\ yielded[1] = AsRecordNew(text)
       /\ \A k \in 2..Len(yielded) : yielded[k] = NoItem

\* a header line with an id and a body line with a space inside, read to the
\* end: one record, then None
C20_Witness ==
    /\ api = "Reader" /\ NoReadFails /\ SingleEntryText(text)
    /\ ~HeaderEndsCrLf(text) /\ pulls = 2
    /\ yielded[1].kind = "Ok" /\ yielded[2] = NoItem
    /\ yielded[1].rec.id # <<>> /\ HasWhitespace(yielded[1].rec.seq)
    /\ yielded[1].rec.entry_string # text

====
